---- MODULE Spec2Model ----
(***************************************************************************)
(* Open Food Facts cleaning pipeline (src/clean_openfood.py).              *)
(*                                                                         *)
(* The table of run_pipeline is modelled cell by cell.  A cell is one of   *)
(*   [t |-> "nan"]                 a missing value (NaN / pd.NA)           *)
(*   [t |-> "str", s |-> chars]    a Python str, as a sequence of          *)
(*                                 one-character strings                   *)
(*   [t |-> "num", n |-> k]        a number                                *)
(* Numbers of the eight nutritional columns are fixed-point: k counts      *)
(* units of 1/Scale, so that the float32 cast of line 127 can round.       *)
(* Numbers of nova_group and nutriscore_numeric are plain integers.        *)
(***************************************************************************)
EXTENDS Integers, Sequences, FiniteSets, TLC

(***************************************************************************)
(* Characters and Python str methods                                       *)
(***************************************************************************)
LowerChars == <<"a","b","c","d","e","f","g","h","i","j","k","l","m",
                "n","o","p","q","r","s","t","u","v","w","x","y","z","ñ">>

UpperChars == <<"A","B","C","D","E","F","G","H","I","J","K","L","M",
                "N","O","P","Q","R","S","T","U","V","W","X","Y","Z","Ñ">>

Digits == {"0","1","2","3","4","5","6","7","8","9"}

Range(f) == {f[i] : i \in DOMAIN f}

PosIn(c, seq) == CHOOSE i \in DOMAIN seq : seq[i] = c

IsLower(c) == c \in Range(LowerChars)

IsUpper(c) == c \in Range(UpperChars)

\* str.isalpha() restricted to the alphabet of the model: a cased character
IsCased(c) == IsLower(c) \/ IsUpper(c)

\* the regex class \w : letters, digits and the underscore
IsWord(c) == IsCased(c) \/ c \in Digits \/ c = "_"

\* the regex class \s and the characters str.strip() removes
IsSpace(c) == c \in {" ", "\t", "\n"}

ToUpper(c) == IF IsLower(c) THEN UpperChars[PosIn(c, LowerChars)] ELSE c

ToLower(c) == IF IsUpper(c) THEN LowerChars[PosIn(c, UpperChars)] ELSE c

\* str.lower()
Lower(s) == [i \in DOMAIN s |-> ToLower(s[i])]

\* str.title(): a cased character is upper-cased when the character before
\* it is not cased (or there is none) and lower-cased otherwise
Title(s) ==
    [i \in DOMAIN s |->
        IF i > 1 /\ IsCased(s[i-1]) THEN ToLower(s[i]) ELSE ToUpper(s[i])]

RECURSIVE LStrip(_)
LStrip(s) == IF s # <<>> /\ IsSpace(Head(s)) THEN LStrip(Tail(s)) ELSE s

RECURSIVE RStrip(_)
RStrip(s) ==
    IF s # <<>> /\ IsSpace(s[Len(s)]) THEN RStrip(SubSeq(s, 1, Len(s) - 1))
    ELSE s

\* str.strip()
Strip(s) == RStrip(LStrip(s))

StartsWith(s, p) == Len(s) >= Len(p) /\ SubSeq(s, 1, Len(p)) = p

Drop(s, k) == SubSeq(s, k + 1, Len(s))

\* str.replace(old, new): every non-overlapping occurrence, left to right
RECURSIVE ReplaceAll(_, _, _)
ReplaceAll(s, old, new) ==
    IF s = <<>> THEN <<>>
    ELSE IF StartsWith(s, old) THEN new \o ReplaceAll(Drop(s, Len(old)), old, new)
    ELSE <<Head(s)>> \o ReplaceAll(Tail(s), old, new)

\* str.split(","): the pieces between the commas, empty pieces included
RECURSIVE SplitComma(_)
SplitComma(s) ==
    IF \A i \in DOMAIN s : s[i] # "," THEN <<s>>
    ELSE LET k == CHOOSE i \in DOMAIN s :
                      s[i] = "," /\ \A j \in 1..(i-1) : s[j] # ","
         IN  <<SubSeq(s, 1, k - 1)>> \o SplitComma(Drop(s, k))

\* sep.join(parts)
RECURSIVE Join(_, _)
Join(parts, sep) ==
    IF parts = <<>> THEN <<>>
    ELSE IF Len(parts) = 1 THEN parts[1]
    ELSE parts[1] \o sep \o Join(Tail(parts), sep)

\* html.unescape, for the entities of the model's alphabet: &amp; and &#39;
RECURSIVE HtmlUnescape(_)
HtmlUnescape(s) ==
    IF s = <<>> THEN <<>>
    ELSE IF StartsWith(s, <<"&","a","m","p",";">>)
         THEN <<"&">> \o HtmlUnescape(Drop(s, 5))
    ELSE IF StartsWith(s, <<"&","#","3","9",";">>)
         THEN <<"'">> \o HtmlUnescape(Drop(s, 5))
    ELSE <<Head(s)>> \o HtmlUnescape(Tail(s))

\* re.sub(r"\b\w{2,3}:", "", s): prev is the character before s in the
\* subject ("" at its start); the quantifier is greedy, three before two
RECURSIVE SubCodePrefix(_, _)
SubCodePrefix(prev, s) ==
    IF s = <<>> THEN <<>>
    ELSE LET boundary == (prev = "" \/ ~IsWord(prev)) /\ IsWord(s[1])
             three == Len(s) >= 4 /\ IsWord(s[1]) /\ IsWord(s[2])
                        /\ IsWord(s[3]) /\ s[4] = ":"
             two   == Len(s) >= 3 /\ IsWord(s[1]) /\ IsWord(s[2]) /\ s[3] = ":"
         IN  IF boundary /\ three THEN SubCodePrefix(":", Drop(s, 4))
             ELSE IF boundary /\ two THEN SubCodePrefix(":", Drop(s, 3))
             ELSE <<Head(s)>> \o SubCodePrefix(Head(s), Tail(s))

RemoveCodePrefixes(s) == SubCodePrefix("", s)

\* re.sub(r"\s+", " ", s)
RECURSIVE CollapseSpaces(_)
CollapseSpaces(s) ==
    IF s = <<>> THEN <<>>
    ELSE IF IsSpace(Head(s)) THEN <<" ">> \o CollapseSpaces(LStrip(s))
    ELSE <<Head(s)>> \o CollapseSpaces(Tail(s))

\* .str.replace(", ", ",").str.replace(",", ", ")
CommaSpacing(s) == ReplaceAll(ReplaceAll(s, <<",", " ">>, <<",">>), <<",">>, <<",", " ">>)

\* remove_lang_prefix on a str: re.sub(r'^[a-z]{2}[:_]', '', text,
\* flags=re.IGNORECASE).strip().  With IGNORECASE [a-z] matches the ASCII
\* letters of either case (not "ñ").
IsAsciiLetter(c) == IsCased(c) /\ c \notin {"ñ", "Ñ"}

remove_lang_prefix(s) ==
    IF Len(s) >= 3 /\ IsAsciiLetter(s[1]) /\ IsAsciiLetter(s[2]) /\ s[3] \in {":", "_"}
    THEN Strip(Drop(s, 3))
    ELSE Strip(s)

(***************************************************************************)
(* Cells, string literals, columns                                         *)
(***************************************************************************)
NaN == [t |-> "nan"]

Str(chars) == [t |-> "str", s |-> chars]

Num(k) == [t |-> "num", n |-> k]

IsNaN(c) == c.t = "nan"

IsStr(c) == c.t = "str"

IsNum(c) == c.t = "num"

\* Series.fillna(value)
fillna(c, value) == IF IsNaN(c) THEN value ELSE c

\* Series.replace(old, new) on one cell: whole-cell equality
ReplaceCell(c, olds, new) == IF IsStr(c) /\ c.s \in olds THEN new ELSE c

sUnknown == <<"U","n","k","n","o","w","n">>

sunknown == <<"u","n","k","n","o","w","n">>

sXxx == <<"X","x","x">>

sXylimgxyling == <<"X","y","l","i","m","g","x","y","l","i","n","g">>

sundefined == <<"u","n","d","e","f","i","n","e","d">>

sza == <<"z","a">>

s40g == <<"4","0","g">>

spackaging == <<"p","a","c","k","a","g","i","n","g">>

splazavea == <<"p","l","a","z","a"," ","v","e","a">>

snotapplicable == <<"n","o","t","-","a","p","p","l","i","c","a","b","l","e">>

\* num_cols of clean_nutritional_columns
num_cols == {"energy-kcal_100g", "fat_100g", "saturated-fat_100g", "sugars_100g",
             "salt_100g", "proteins_100g", "fiber_100g", "carbohydrates_100g"}

TextCols == {"product_name", "brands", "categories", "countries",
             "ingredients_text", "labels", "packaging", "nutriscore_grade"}

\* the columns of the raw file (spec section 6)
InputCols == TextCols \cup {"nova_group", "environmental_score_score"} \cup num_cols

(***************************************************************************)
(* Numbers of the nutritional columns: fixed point, Scale units per 1.0    *)
(***************************************************************************)
Scale == 2^16

LowerLimit == 0

UpperLimit == 1000

RECURSIVE BitLen(_)
BitLen(n) == IF n = 0 THEN 0 ELSE 1 + BitLen(n \div 2)

\* astype("float32"): the magnitude is rounded to nearest, ties to even, at
\* 24 significant bits; the sign is kept
Float32(n) ==
    LET m == IF n < 0 THEN -n ELSE n
        d == BitLen(m) - 24
        rounded ==
            IF d <= 0 THEN m
            ELSE LET q == m \div 2^d
                     r == m % 2^d
                     half == 2^(d-1)
                     up == r > half \/ (r = half /\ q % 2 = 1)
                 IN  (IF up THEN q + 1 ELSE q) * 2^d
    IN  IF n < 0 THEN -rounded ELSE rounded

\* line 126: (df[col] < 0) | (df[col] > 1000); a comparison with NaN is False
IsOutlier(c) == IsNum(c) /\ (c.n < LowerLimit * Scale \/ c.n > UpperLimit * Scale)

RECURSIVE SortedInsert(_, _)
SortedInsert(sorted, x) ==
    IF sorted = <<>> THEN <<x>>
    ELSE IF x <= Head(sorted) THEN <<x>> \o sorted
    ELSE <<Head(sorted)>> \o SortedInsert(Tail(sorted), x)

RECURSIVE SortNums(_)
SortNums(xs) == IF xs = <<>> THEN <<>> ELSE SortedInsert(SortNums(Tail(xs)), Head(xs))

\* Series.median(): NaN is skipped; the middle value, or the mean of the two
\* middle values; NaN when no value is left
Median(cells) ==
    LET vals == SelectSeq(cells, IsNum)
        xs == SortNums([i \in DOMAIN vals |-> vals[i].n])
        k == Len(xs)
    IN  IF k = 0 THEN NaN
        ELSE IF k % 2 = 1 THEN Num(xs[(k + 1) \div 2])
        ELSE Num((xs[k \div 2] + xs[k \div 2 + 1]) \div 2)

(***************************************************************************)
(* Lookup tables of the cleaners                                           *)
(***************************************************************************)
\* country_map of clean_countries, as <<key, value>> pairs
country_map == {
    <<<<"F","r">>,
      <<"F","r","a","n","c","e">>>>,
    <<<<"D","e">>,
      <<"G","e","r","m","a","n","y">>>>,
    <<<<"G","b">>,
      <<"U","n","i","t","e","d"," ","K","i","n","g","d","o","m">>>>,
    <<<<"U","s">>,
      <<"U","n","i","t","e","d"," ","S","t","a","t","e","s">>>>,
    <<<<"U","k">>,
      <<"U","n","i","t","e","d"," ","K","i","n","g","d","o","m">>>>,
    <<<<"E","s","p","a","ñ","a">>,
      <<"S","p","a","i","n">>>>,
    <<<<"E","s","p","a","n","a">>,
      <<"S","p","a","i","n">>>>,
    <<<<"F","r","a","n","c","i","a">>,
      <<"F","r","a","n","c","e">>>>,
    <<<<"F","r","a","n","k","r","e","i","c","h">>,
      <<"F","r","a","n","c","e">>>>,
    <<<<"V","e","r","e","i","n","i","g","t","e"," ","S","t","a","a","t","e","n"," ","V","o","n"," ","A","m","e","r","i","k","a">>,
      <<"U","n","i","t","e","d"," ","S","t","a","t","e","s">>>>,
    <<<<"B","r","a","s","i","l">>,
      <<"B","r","a","z","i","l">>>>,
    <<<<"B","r","a","s","i","l","i","e","n">>,
      <<"B","r","a","z","i","l">>>>,
    <<<<"G","r","i","e","c","h","e","n","l","a","n","d">>,
      <<"G","r","e","e","c","e">>>>,
    <<<<"I","r","l","a","n","d">>,
      <<"I","r","e","l","a","n","d">>>>,
    <<<<"A","l","e","m","a","n","i","a">>,
      <<"G","e","r","m","a","n","y">>>>,
    <<<<"B","e","l","g","i","e","n">>,
      <<"B","e","l","g","i","u","m">>>>,
    <<<<"S","e","l","e","s","t","o","s","i","n","a">>,
      <<"U","n","k","n","o","w","n">>>>,
    <<<<"C","a">>,
      <<"C","a","n","a","d","a">>>>,
    <<<<"E","u","r","o","p","e","a","n"," ","U","n","i","o","n">>,
      <<"E","u","r","o","p","e","a","n"," ","U","n","i","o","n">>>>,
    <<<<"W","o","r","l","d">>,
      <<"W","o","r","l","d">>>> }

\* mutant: a token that is no key is replaced by the sentinel
CountryGet_DefaultUnknown(token) ==
    IF \E p \in country_map : p[1] = token
    THEN (CHOOSE p \in country_map : p[1] = token)[2]
    ELSE sUnknown

\* country_map.get(token, token)
CountryGet(token) ==
    IF \E p \in country_map : p[1] = token
    THEN (CHOOSE p \in country_map : p[1] = token)[2]
    ELSE token

\* nutri_map of clean_nutriscore; Series.map gives NaN for any other value
nutri_map(c) ==
    IF ~IsStr(c) THEN NaN
    ELSE IF c.s = <<"a">> THEN Num(1)
    ELSE IF c.s = <<"b">> THEN Num(2)
    ELSE IF c.s = <<"c">> THEN Num(3)
    ELSE IF c.s = <<"d">> THEN Num(4)
    ELSE IF c.s = <<"e">> THEN Num(5)
    ELSE IF c.s = sunknown THEN Num(0)
    ELSE NaN

sNova1 == <<"U","n","p","r","o","c","e","s","s","e","d"," ","o","r"," ","M","i","n","i","m","a","l","l","y"," ","P","r","o","c","e","s","s","e","d">>

sNova2 == <<"P","r","o","c","e","s","s","e","d"," ","C","u","l","i","n","a","r","y"," ","I","n","g","r","e","d","i","e","n","t","s">>

sNova3 == <<"P","r","o","c","e","s","s","e","d"," ","F","o","o","d","s">>

sNova4 == <<"U","l","t","r","a","-","P","r","o","c","e","s","s","e","d"," ","F","o","o","d","s">>

\* mutant: the table has no entry for "unknown"
nova_map_NoUnknown(c) ==
    IF IsNum(c) THEN
        IF c.n = 1 THEN Str(sNova1)
        ELSE IF c.n = 2 THEN Str(sNova2)
        ELSE IF c.n = 3 THEN Str(sNova3)
        ELSE IF c.n = 4 THEN Str(sNova4)
        ELSE NaN
    ELSE NaN

\* nova_map of clean_nova_group; Series.map gives NaN for any other value
nova_map(c) ==
    IF IsNum(c) THEN
        IF c.n = 1 THEN Str(sNova1)
        ELSE IF c.n = 2 THEN Str(sNova2)
        ELSE IF c.n = 3 THEN Str(sNova3)
        ELSE IF c.n = 4 THEN Str(sNova4)
        ELSE NaN
    ELSE IF IsStr(c) /\ c.s = sunknown THEN Str(sUnknown)
    ELSE NaN

(***************************************************************************)
(* The DataFrame: [columns, rows, index, dtypes].  rows[i] maps each       *)
(* column to a cell, index[i] is the row's label, dtypes maps each column  *)
(* to "object", "number" or "float32".                                     *)
(***************************************************************************)
Column(df, c) == [i \in 1..Len(df.rows) |-> df.rows[i][c]]

SetCell(row, c, v) == [x \in DOMAIN row \cup {c} |-> IF x = c THEN v ELSE row[x]]

\* the dtype pandas infers for a column of cells: "object" for an empty
\* column and for one that holds a str, "number" (int64 or float64) for one
\* of numbers and missing values only
InferDtype(cells) ==
    IF Len(cells) = 0 THEN "object"
    ELSE IF \E i \in DOMAIN cells : IsStr(cells[i]) THEN "object"
    ELSE "number"

\* df[c] = cells
Assign(df, c, cells, dtype) ==
    [columns |-> df.columns \cup {c},
     rows    |-> [i \in 1..Len(df.rows) |-> SetCell(df.rows[i], c, cells[i])],
     index   |-> df.index,
     dtypes  |-> SetCell(df.dtypes, c, dtype)]

\* the positions 1..len(df)
RowsOf(df) == 1..Len(df.rows)

\* the positions of a boolean mask that hold TRUE, ascending
RECURSIVE PositionsUpTo(_, _)
PositionsUpTo(mask, n) ==
    IF n = 0 THEN <<>>
    ELSE IF mask[n] THEN Append(PositionsUpTo(mask, n - 1), n)
    ELSE PositionsUpTo(mask, n - 1)

Positions(mask) == PositionsUpTo(mask, Len(mask))

\* df[mask]: the rows at the kept positions, with their index labels
TakeRows(df, pos) ==
    [df EXCEPT !.rows  = [k \in 1..Len(pos) |-> df.rows[pos[k]]],
               !.index = [k \in 1..Len(pos) |-> df.index[pos[k]]]]

\* df.duplicated(): a row equal in every column to an earlier row
duplicated(df, i) == \E j \in 1..(i - 1) : df.rows[j] = df.rows[i]

\* df.drop_duplicates(): the first occurrence is kept
drop_duplicates(df) ==
    TakeRows(df, Positions([i \in 1..Len(df.rows) |-> ~duplicated(df, i)]))

\* the dtype of Series.apply(f): an empty Series keeps its dtype, otherwise
\* the dtype is inferred from the results
ApplyDtype(df, c) ==
    IF Len(df.rows) = 0 THEN df.dtypes[c] ELSE InferDtype(Column(df, c))

\* the .str accessor raises AttributeError unless the Series holds objects
StrAccessorRaises(dtype) == dtype # "object"

\* the exception a stage raises: KeyError for a column it needs and the
\* table lacks, else AttributeError when strfails, else none
Raises(df, needs, strfails) ==
    IF ~(needs \subseteq df.columns) THEN "KeyError"
    ELSE IF strfails THEN "AttributeError"
    ELSE "none"

(***************************************************************************)
(* clean_product_name                                                      *)
(***************************************************************************)
\* A .str method leaves a missing cell missing; the operators below apply
\* the chain of a statement to one cell.

\* mutant: the name is not stripped
CleanName_NoStrip(c) == IF IsStr(c) THEN Str(Title(HtmlUnescape(c.s))) ELSE c

\* lines 52-53: html.unescape when not null, then .str.strip().str.title()
CleanName(c) == IF IsStr(c) THEN Str(Title(Strip(HtmlUnescape(c.s)))) ELSE c

\* mutant: the comparison also rejects the missing names
NotXxx_DropsMissing(c) == c # Str(sXxx) /\ ~IsNaN(c)

\* line 54: df["product_name"] != "Xxx" (True for NaN)
NotXxx(c) == c # Str(sXxx)

clean_product_name_raises(df) ==
    Raises(df, {"product_name"},
           StrAccessorRaises(ApplyDtype(df, "product_name")))

clean_product_name(df) ==
    LET named == Assign(df, "product_name",
                     [i \in RowsOf(df) |-> CleanName(df.rows[i]["product_name"])],
                     "object")
        kept  == TakeRows(named, Positions([i \in RowsOf(named) |->
                     NotXxx(named.rows[i]["product_name"])]))
    IN  Assign(kept, "product_name",
               [i \in RowsOf(kept) |->
                    fillna(kept.rows[i]["product_name"], Str(sUnknown))],
               "object")

(***************************************************************************)
(* clean_brands                                                            *)
(***************************************************************************)
\* the right single quotation mark U+2019 of line 63, written as a caret
CurlyQuote == "^"

\* lines 60-65 on one cell
CleanBrand(c) ==
    IF ~IsStr(c) THEN fillna(c, Str(sUnknown))
    ELSE LET titled   == Strip(Title(HtmlUnescape(c.s)))
             replaced == IF titled = sXylimgxyling THEN sUnknown ELSE titled
             quoted   == ReplaceAll(replaced, <<CurlyQuote>>, <<"'">>)
         IN  Str(CommaSpacing(quoted))

clean_brands_raises(df) ==
    Raises(df, {"brands"}, StrAccessorRaises(ApplyDtype(df, "brands")))

clean_brands(df) ==
    Assign(df, "brands",
           [i \in RowsOf(df) |-> CleanBrand(df.rows[i]["brands"])], "object")

(***************************************************************************)
(* clean_categories                                                        *)
(***************************************************************************)
\* lines 70-71 on one cell
CleanCategory(c) ==
    LET junked == ReplaceCell(c, {sundefined, sza}, NaN)
    IN  IF IsStr(junked) THEN Str(remove_lang_prefix(Strip(junked.s)))
        ELSE Str(remove_lang_prefix(sUnknown))

\* line 72: .str.split(",").str[0].str.title().fillna("Unknown")
CategoryTop(c) ==
    IF IsStr(c) THEN Str(Title(SplitComma(c.s)[1])) ELSE fillna(c, Str(sUnknown))

clean_categories_raises(df) ==
    Raises(df, {"categories"}, StrAccessorRaises(df.dtypes["categories"]))

clean_categories(df) ==
    LET cleaned == Assign(df, "categories",
                       [i \in RowsOf(df) |-> CleanCategory(df.rows[i]["categories"])],
                       "object")
    IN  Assign(cleaned, "categories_top",
               [i \in RowsOf(cleaned) |-> CategoryTop(cleaned.rows[i]["categories"])],
               "object")

(***************************************************************************)
(* clean_countries                                                         *)
(***************************************************************************)
\* lines 77-78: prefix removal, strip, comma spacing, title
NormaliseCountries(s) == Title(CommaSpacing(Strip(RemoveCodePrefixes(s))))

\* line 87: ", ".join(country_map.get(c.strip(), c.strip()) for c in x.split(","))
MapCountries(s) ==
    LET parts == SplitComma(s)
    IN  Join([k \in 1..Len(parts) |-> CountryGet(Strip(parts[k]))], <<",", " ">>)

\* lines 77-87 on one cell
CleanCountry(c) ==
    IF IsStr(c) THEN Str(MapCountries(NormaliseCountries(c.s)))
    ELSE Str(MapCountries(sUnknown))

clean_countries_raises(df) ==
    Raises(df, {"countries"}, StrAccessorRaises(df.dtypes["countries"]))

clean_countries(df) ==
    Assign(df, "countries",
           [i \in RowsOf(df) |-> CleanCountry(df.rows[i]["countries"])], "object")

(***************************************************************************)
(* clean_ingredients_labels_packaging                                      *)
(***************************************************************************)
\* line 92 on one cell
CleanIngredients(c) ==
    LET filled == fillna(c, Str(sUnknown))
    IN  IF IsStr(filled) THEN Str(CollapseSpaces(Lower(Strip(filled.s)))) ELSE NaN

\* line 93 on one cell
CleanLabels(c) ==
    LET filled == fillna(c, Str(sUnknown))
    IN  IF IsStr(filled) THEN Str(CommaSpacing(Lower(RemoveCodePrefixes(filled.s))))
        ELSE NaN

\* lines 94-95 on one cell: line 94 title-cases the value, line 95 then
\* compares it with the lower-case literals
CleanPackaging(c) ==
    LET titled == IF IsStr(c)
                  THEN Str(Title(Strip(CommaSpacing(RemoveCodePrefixes(c.s)))))
                  ELSE Str(Title(sUnknown))
    IN  ReplaceCell(titled, {s40g, spackaging, splazavea, sza}, Str(sUnknown))

clean_ingredients_labels_packaging_raises(df) ==
    Raises(df, {"ingredients_text", "labels", "packaging"},
           StrAccessorRaises(df.dtypes["packaging"]))

clean_ingredients_labels_packaging(df) ==
    LET a == Assign(df, "ingredients_text",
                 [i \in RowsOf(df) |-> CleanIngredients(df.rows[i]["ingredients_text"])],
                 "object")
        b == Assign(a, "labels",
                 [i \in RowsOf(a) |-> CleanLabels(a.rows[i]["labels"])], "object")
    IN  Assign(b, "packaging",
               [i \in RowsOf(b) |-> CleanPackaging(b.rows[i]["packaging"])], "object")

(***************************************************************************)
(* clean_nutriscore                                                        *)
(***************************************************************************)
\* mutant: the grade is not lower-cased
CleanGrade_NoLower(c) ==
    ReplaceCell(fillna(c, Str(sunknown)), {snotapplicable}, Str(sUnknown))

\* line 100: fillna("unknown").replace("not-applicable", "Unknown").str.lower()
CleanGrade(c) ==
    LET replaced == ReplaceCell(fillna(c, Str(sunknown)), {snotapplicable},
                                Str(sUnknown))
    IN  IF IsStr(replaced) THEN Str(Lower(replaced.s)) ELSE NaN

\* lines 100-102: the two assignments that precede the drop
nutriscore_assign(df) ==
    LET graded == Assign(df, "nutriscore_grade",
                      [i \in RowsOf(df) |-> CleanGrade(df.rows[i]["nutriscore_grade"])],
                      "object")
        nums   == [i \in RowsOf(graded) |->
                       nutri_map(graded.rows[i]["nutriscore_grade"])]
    IN  Assign(graded, "nutriscore_numeric", nums, InferDtype(nums))

\* df.drop(columns=[c], inplace=True) where it does not raise
DropColumn(df, c) ==
    [columns |-> df.columns \ {c},
     rows    |-> [i \in RowsOf(df) |->
                     [x \in DOMAIN df.rows[i] \ {c} |-> df.rows[i][x]]],
     index   |-> df.index,
     dtypes  |-> [x \in DOMAIN df.dtypes \ {c} |-> df.dtypes[x]]]

\* mutant: the drop ignores a column that is not there (errors="ignore")
clean_nutriscore_raises_IgnoreMissing(df) ==
    Raises(df, {"nutriscore_grade"}, FALSE)

\* line 103 raises KeyError when the column is not in the table
clean_nutriscore_raises(df) ==
    Raises(df, {"nutriscore_grade", "environmental_score_score"}, FALSE)

clean_nutriscore(df) == DropColumn(nutriscore_assign(df), "environmental_score_score")

(***************************************************************************)
(* clean_nova_group                                                        *)
(***************************************************************************)
clean_nova_group_raises(df) == Raises(df, {"nova_group"}, FALSE)

clean_nova_group(df) ==
    LET hadnan == \E i \in RowsOf(df) : IsNaN(df.rows[i]["nova_group"])
        filled == Assign(df, "nova_group",
                      [i \in RowsOf(df) |-> fillna(df.rows[i]["nova_group"], Str(sunknown))],
                      IF hadnan THEN "object" ELSE df.dtypes["nova_group"])
        labels == [i \in RowsOf(filled) |-> nova_map(filled.rows[i]["nova_group"])]
    IN  Assign(filled, "nova_group_label", labels, InferDtype(labels))

(***************************************************************************)
(* clean_nutritional_columns                                               *)
(***************************************************************************)
\* mutant: the median is taken before the out-of-range values are removed
CleanNumericColumn_MedianOfAll(cells) ==
    LET median == Median(cells)
    IN  [i \in DOMAIN cells |->
            LET filled == IF IsOutlier(cells[i]) THEN median
                          ELSE fillna(cells[i], median)
            IN  IF IsNum(filled) THEN Num(Float32(filled.n)) ELSE filled]

\* lines 126-127 for one column: the cells of the column afterwards
CleanNumericColumn(cells) ==
    LET capped == [i \in DOMAIN cells |->
                       IF IsOutlier(cells[i]) THEN NaN ELSE cells[i]]
        median == Median(capped)
    IN  [i \in DOMAIN cells |->
            LET filled == fillna(capped[i], median)
            IN  IF IsNum(filled) THEN Num(Float32(filled.n)) ELSE filled]

\* a comparison of a str with 0 raises TypeError
clean_nutritional_columns_raises(df) ==
    IF ~(num_cols \subseteq df.columns) THEN "KeyError"
    ELSE IF \E c \in num_cols : \E i \in 1..Len(df.rows) : IsStr(df.rows[i][c])
         THEN "TypeError"
    ELSE "none"

clean_nutritional_columns(df) ==
    [columns |-> df.columns,
     rows    |-> [i \in 1..Len(df.rows) |->
                     [c \in DOMAIN df.rows[i] |->
                         IF c \in num_cols
                         THEN CleanNumericColumn(Column(df, c))[i]
                         ELSE df.rows[i][c]]],
     index   |-> df.index,
     dtypes  |-> [c \in DOMAIN df.dtypes |->
                     IF c \in num_cols THEN "float32" ELSE df.dtypes[c]]]

(***************************************************************************)
(* The files: load_data (pd.read_csv) and save_data (df.to_csv)            *)
(* A file is [columns, rows]; a field is NaN (empty), Str (text) or Num    *)
(* (a numeral).                                                            *)
(***************************************************************************)
\* text fields read_csv takes for a missing value
NaStrings == { <<>>, <<"N","A">>, <<"n","a","n">>, <<"N","a","N">>,
               <<"n","u","l","l">>, <<"N","U","L","L">>, <<"N","o","n","e">> }

ParseField(c) == IF IsStr(c) /\ c.s \in NaStrings THEN NaN ELSE c

DigitChars == <<"0","1","2","3","4","5","6","7","8","9">>

RECURSIVE FormatInt(_)
FormatInt(n) ==
    IF n < 10 THEN <<DigitChars[n + 1]>>
    ELSE FormatInt(n \div 10) \o <<DigitChars[(n % 10) + 1]>>

\* str(float(n)) of a whole number n >= 0 held in an object column
FormatFloat(n) == FormatInt(n) \o <<".", "0">>

\* the field to_csv writes: a number of an object column (nova_group once
\* "unknown" has been filled in) is a Python float, written with its decimal
\* point and read back as text beside text.  A number of a numeric column is
\* written as a numeral, which the model reads back as the same number.
WriteField(c, dtype) ==
    IF IsNum(c) /\ dtype = "object" THEN Str(FormatFloat(c.n)) ELSE c

\* pd.read_csv(path)
load_data(file) ==
    LET rows == [i \in 1..Len(file.rows) |->
                    [c \in file.columns |-> ParseField(file.rows[i][c])]]
    IN  [columns |-> file.columns,
         rows    |-> rows,
         index   |-> [i \in 1..Len(rows) |-> i - 1],
         dtypes  |-> [c \in file.columns |->
                        InferDtype([i \in 1..Len(rows) |-> rows[i][c]])]]

\* df.to_csv(filename, index=False)
to_csv(df) ==
    [columns |-> df.columns,
     rows    |-> [i \in 1..Len(df.rows) |->
                     [c \in df.columns |-> WriteField(df.rows[i][c], df.dtypes[c])]]]

(***************************************************************************)
(* run_pipeline as a state machine                                         *)
(***************************************************************************)
VARIABLES
    infile,          \* the file at data_path
    outfile,         \* <<>> or <<the file save_data wrote in this run>>
    df,              \* the table of run_pipeline
    duplicate_rows,  \* line 180
    original_shape,  \* line 183: <<rows, columns>>
    pc,              \* the statement of run_pipeline to execute next
    err,             \* [exc, at]: the exception that ended the run and the
                     \* statement that raised it; NoErr while none has
    run              \* 1 for the first run, 2 for a run on the first run's output

vars == <<infile, outfile, df, duplicate_rows, original_shape, pc, err, run>>

NoErr == [exc |-> "none", at |-> "none"]

NoDf == [columns |-> {}, rows |-> <<>>, index |-> <<>>,
         dtypes |-> [c \in {} |-> "object"]]

\* one statement of run_pipeline: the table it yields, or the exception
Step(at, raises, result, next) ==
    /\ pc = at
    /\ IF raises = "none"
       THEN df' = result /\ pc' = next /\ err' = err
       ELSE df' = df /\ pc' = "raised" /\ err' = [exc |-> raises, at |-> at]
    /\ UNCHANGED <<infile, outfile, duplicate_rows, original_shape, run>>

LoadData ==
    /\ pc = "load_data"
    /\ df' = load_data(infile)
    /\ pc' = "drop_duplicates"
    /\ UNCHANGED <<infile, outfile, duplicate_rows, original_shape, err, run>>

DropDuplicates ==
    /\ pc = "drop_duplicates"
    /\ duplicate_rows' = Cardinality({i \in 1..Len(df.rows) : duplicated(df, i)})
    /\ df' = drop_duplicates(df)
    /\ original_shape' = <<Len(df'.rows), Cardinality(df'.columns)>>
    /\ pc' = "clean_product_name"
    /\ UNCHANGED <<infile, outfile, err, run>>

CleanProductName ==
    Step("clean_product_name", clean_product_name_raises(df),
         clean_product_name(df), "clean_brands")

CleanBrands ==
    Step("clean_brands", clean_brands_raises(df), clean_brands(df),
         "clean_categories")

CleanCategories ==
    Step("clean_categories", clean_categories_raises(df), clean_categories(df),
         "clean_countries")

CleanCountries ==
    Step("clean_countries", clean_countries_raises(df), clean_countries(df),
         "clean_ingredients_labels_packaging")

CleanIngredientsLabelsPackaging ==
    Step("clean_ingredients_labels_packaging",
         clean_ingredients_labels_packaging_raises(df),
         clean_ingredients_labels_packaging(df), "clean_nutriscore")

\* the two assignments of lines 100-102 are made in place before the drop
\* of line 103 can raise
CleanNutriscore ==
    /\ pc = "clean_nutriscore"
    /\ IF clean_nutriscore_raises(df) = "none"
       THEN df' = clean_nutriscore(df) /\ pc' = "clean_nova_group" /\ err' = err
       ELSE /\ df' = IF "nutriscore_grade" \in df.columns
                     THEN nutriscore_assign(df) ELSE df
            /\ pc' = "raised"
            /\ err' = [exc |-> clean_nutriscore_raises(df), at |-> "clean_nutriscore"]
    /\ UNCHANGED <<infile, outfile, duplicate_rows, original_shape, run>>

CleanNovaGroup ==
    Step("clean_nova_group", clean_nova_group_raises(df), clean_nova_group(df),
         "clean_nutritional_columns")

CleanNutritionalColumns ==
    Step("clean_nutritional_columns", clean_nutritional_columns_raises(df),
         clean_nutritional_columns(df), "save_data")

SaveData ==
    /\ pc = "save_data"
    /\ outfile' = <<to_csv(df)>>
    /\ pc' = "show_cleaning_summary"
    /\ UNCHANGED <<infile, df, duplicate_rows, original_shape, err, run>>

\* show_cleaning_summary only prints
ShowCleaningSummary ==
    /\ pc = "show_cleaning_summary"
    /\ pc' = "done"
    /\ UNCHANGED <<infile, outfile, df, duplicate_rows, original_shape, err, run>>

\* run_pipeline again, with the file the finished run wrote at data_path
MaxRuns == 2

Rerun ==
    /\ pc = "done"
    /\ run < MaxRuns
    /\ infile' = outfile[1]
    /\ outfile' = <<>>
    /\ df' = NoDf
    /\ duplicate_rows' = 0
    /\ original_shape' = <<0, 0>>
    /\ pc' = "load_data"
    /\ err' = NoErr
    /\ run' = run + 1

run_pipeline ==
    \/ LoadData
    \/ DropDuplicates
    \/ CleanProductName
    \/ CleanBrands
    \/ CleanCategories
    \/ CleanCountries
    \/ CleanIngredientsLabelsPackaging
    \/ CleanNutriscore
    \/ CleanNovaGroup
    \/ CleanNutritionalColumns
    \/ SaveData
    \/ ShowCleaningSummary

Next == run_pipeline

NextRerun == run_pipeline \/ Rerun

(***************************************************************************)
(* Input files                                                             *)
(***************************************************************************)
BaseRow ==
    [c \in InputCols |->
        IF c = "product_name" THEN Str(<<"t","e","a">>)
        ELSE IF c = "brands" THEN Str(<<"b","o">>)
        ELSE IF c = "categories" THEN Str(<<"e","n",":","t","e","a","s">>)
        ELSE IF c = "countries" THEN Str(<<"f","r">>)
        ELSE IF c = "ingredients_text" THEN Str(<<"t","e","a">>)
        ELSE IF c = "labels" THEN Str(<<"b","i","o">>)
        ELSE IF c = "packaging" THEN Str(<<"b","o","x">>)
        ELSE IF c = "nutriscore_grade" THEN Str(<<"b">>)
        ELSE IF c = "nova_group" THEN Num(3)
        ELSE IF c = "environmental_score_score" THEN Num(40)
        ELSE Num(5 * Scale)]

With(c, values) == {[BaseRow EXCEPT ![c] = v] : v \in values}

\* the sequences of up to n rows drawn from a pool
RECURSIVE SeqsUpTo(_, _)
SeqsUpTo(pool, n) ==
    IF n = 0 THEN {<<>>}
    ELSE LET shorter == SeqsUpTo(pool, n - 1)
         IN  shorter \cup {Append(q, r) : q \in {x \in shorter : Len(x) = n - 1}, r \in pool}

\* a row restricted to the columns of a schema
Project(row, columns) == [c \in columns |-> row[c]]

\* the files of one to n rows drawn from a pool, under each of the schemas
Files(pool, n, schemas) ==
    {[columns |-> cols,
      rows    |-> [i \in 1..Len(q) |-> Project(q[i], cols)]] :
        q \in {x \in SeqsUpTo(pool, n) : Len(x) >= 1}, cols \in schemas}

InitWith(files) ==
    /\ infile \in files
    /\ outfile = <<>>
    /\ df = NoDf
    /\ duplicate_rows = 0
    /\ original_shape = <<0, 0>>
    /\ pc = "load_data"
    /\ err = NoErr
    /\ run = 1

MaxRows == 3

NamePool ==
    With("product_name", {NaN, Str(<<"x","x","x">>), Str(<<" ","X","X","X"," ">>), Str(<<"X","x","x">>), Str(<<"t","e","a"," ","&","a","m","p",";"," ","c","o">>)})
        \cup With("brands", {NaN})

Schemas == {InputCols, InputCols \ {"environmental_score_score"}}

Init == InitWith(Files(NamePool, MaxRows, Schemas))

Spec == Init /\ [][Next]_vars

\* files that vary the nutritional values.  The values are even numbers of
\* units, so that the mean of two of them is a whole number of units.
MaxNumRows == 3

NumPool ==
    With("energy-kcal_100g",
         {NaN, Num(-2), Num(0), Num(1000 * Scale), Num(1000 * Scale + 2),
          Num(2^25 + 6), Num(2^25 + 2)})
        \cup With("fiber_100g", {NaN, Num(2000 * Scale)})

InitNum == InitWith(Files(NumPool, MaxNumRows, {InputCols}))

SpecNum == InitNum /\ [][Next]_vars

\* files that vary the text columns
MaxTextRows == 2

TextPool ==
    With("countries", {NaN, Str(<<"e","n",":","f","r">>), Str(<<"U","S">>), Str(<<"X","y","z","l","a","n","d">>), Str(<<"f","r",","," "," ","d","e"," ",","," ","x","y","z","l","a","n","d">>), Str(<<"e","s","p","a","ñ","a",",","u","k">>)})
        \cup With("brands", {NaN, Str(sXylimgxyling), Str(<<"t","o","m","&","a","m","p",";","c","o",","," "," ","b","^","s">>)})
        \cup With("categories", {NaN, Str(sundefined), Str(sza), Str(<<"f","r",":","t","e","a","s",","," ","g","r","e","e","n">>)})
        \cup With("packaging", {NaN, Str(s40g), Str(spackaging), Str(splazavea),
                                Str(sza), Str(<<"e","n",":","p","l","a","s","t","i","c",",","b","a","g">>)})

InitText == InitWith(Files(TextPool, MaxTextRows, {InputCols}))

SpecText == InitText /\ [][Next]_vars

\* files that vary the coded columns
MaxCodeRows == 2

CodePool ==
    With("nutriscore_grade",
         {NaN, Str(<<"a">>), Str(<<"c">>), Str(<<"d">>), Str(<<"E">>),
          Str(snotapplicable), Str(sunknown), Str(<<"f">>)})
        \cup With("nova_group", {NaN, Num(1), Num(2), Num(4), Num(5), Num(0)})

InitCode == InitWith(Files(CodePool, MaxCodeRows, Schemas))

SpecCode == InitCode /\ [][Next]_vars

SpecRerun == Init /\ [][NextRerun]_vars

(***************************************************************************)
(* Properties                                                              *)
(***************************************************************************)
Statements ==
    <<"load_data", "drop_duplicates", "clean_product_name", "clean_brands",
      "clean_categories", "clean_countries", "clean_ingredients_labels_packaging",
      "clean_nutriscore", "clean_nova_group", "clean_nutritional_columns",
      "save_data", "show_cleaning_summary", "done">>

Rank(p) == CHOOSE i \in DOMAIN Statements : Statements[i] = p

\* the statement `stage` has completed in the current run
Completed(stage) ==
    IF pc = "raised" THEN Rank(err.at) > Rank(stage) ELSE Rank(pc) > Rank(stage)

\* the table as read from the file, and the loaded cell of the k-th row of df
Loaded == load_data(infile)

RawCell(k, c) == Loaded.rows[df.index[k] + 1][c]

Rows == 1..Len(df.rows)

InRange(c) == IsNum(c) /\ c.n >= 0 /\ c.n <= 1000 * Scale

\* the values of column c that clean_nutritional_columns finds in [0, 1000]
ValidRows(c) == {k \in Rows : InRange(RawCell(k, c))}

\* the element at 0-based position p of the valid values of c in ascending order
ValidAt(c, p) ==
    RawCell(CHOOSE k \in ValidRows(c) :
                /\ Cardinality({j \in ValidRows(c) : RawCell(j, c).n < RawCell(k, c).n}) <= p
                /\ Cardinality({j \in ValidRows(c) : RawCell(j, c).n <= RawCell(k, c).n}) > p,
            c).n

\* the median of the valid values of c (there is at least one)
ValidMedian(c) ==
    LET n == Cardinality(ValidRows(c))
    IN  (ValidAt(c, (n - 1) \div 2) + ValidAt(c, n \div 2)) \div 2

\* C1: after clean_nutritional_columns, every value of each of the eight
\* nutritional columns lies in [0, 1000] and none is missing, also when a
\* column held only out-of-range or missing values.
C1_InRangeNoMissing ==
    Completed("clean_nutritional_columns") =>
        \A k \in Rows : \A c \in num_cols : InRange(df.rows[k][c])

\* C2 as stated, for the columns that have a median of valid values: a value
\* that was in [0, 1000] is left unchanged, and a value that was below 0,
\* above 1000 or missing is replaced by the median of the values of the
\* column that were in [0, 1000].
C2_UnchangedOrMedian ==
    Completed("clean_nutritional_columns") =>
        \A c \in num_cols : ValidRows(c) # {} =>
            \A k \in Rows :
                df.rows[k][c] = IF InRange(RawCell(k, c)) THEN RawCell(k, c)
                                ELSE Num(ValidMedian(c))

\* C2 amended: a value that was in [0, 1000] is kept up to its rounding to
\* float32; a value that was below 0, above 1000 or missing is replaced by
\* the float32 rounding of the median of the values of the column that were
\* in [0, 1000], and stays missing when the column has no such value.
C2_RoundedOrRoundedMedian ==
    Completed("clean_nutritional_columns") =>
        \A c \in num_cols : \A k \in Rows :
            df.rows[k][c] =
                IF InRange(RawCell(k, c)) THEN Num(Float32(RawCell(k, c).n))
                ELSE IF ValidRows(c) # {} THEN Num(Float32(ValidMedian(c)))
                ELSE NaN

\* an out-of-range value, a missing value and a value that float32 cannot
\* hold have been sanitised beside valid values with an outlier above them
C2_Witness ==
    /\ pc = "save_data"
    /\ \E c \in num_cols :
        /\ Cardinality(ValidRows(c)) >= 2
        /\ \E k \in Rows : IsNum(RawCell(k, c)) /\ ~InRange(RawCell(k, c))
                           /\ df.rows[k][c] = Num(Float32(ValidMedian(c)))
        /\ \E k \in Rows : InRange(RawCell(k, c)) /\ df.rows[k][c] # RawCell(k, c)

\* the rows of the loaded table that are the first of their kind
FirstRows == {i \in 1..Len(Loaded.rows) : ~duplicated(Loaded, i)}

\* a loaded name that is "Xxx" once unescaped, trimmed and title-cased: the
\* three letters x in either case
BecomesXxx(c) == IsStr(c) /\ Lower(Strip(HtmlUnescape(c.s))) = <<"x","x","x">>

XxxRows == {i \in FirstRows : BecomesXxx(Loaded.rows[i]["product_name"])}

\* C3: the written table has the loaded rows, less the exact duplicates the
\* deduplication removed, less the deduplicated rows whose cleaned
\* product_name is "Xxx"; the deduplication removes exactly the rows equal to
\* an earlier row, and no other statement adds or removes a row.
C3_RowCount ==
    /\ Completed("drop_duplicates") =>
          duplicate_rows = Len(infile.rows) - Cardinality(FirstRows)
    /\ (Completed("drop_duplicates") /\ ~Completed("clean_product_name")) =>
          Len(df.rows) = Len(infile.rows) - duplicate_rows
    /\ Completed("clean_product_name") =>
          Len(df.rows) = Len(infile.rows) - duplicate_rows - Cardinality(XxxRows)
    /\ Completed("save_data") =>
          Len(outfile[1].rows) =
              Len(infile.rows) - duplicate_rows - Cardinality(XxxRows)

\* a file with an exact duplicate, an "Xxx" row and a row with no name has
\* been written
C3_Witness ==
    /\ pc = "done"
    /\ duplicate_rows >= 1
    /\ Cardinality(XxxRows) >= 1
    /\ \E i \in FirstRows : IsNaN(Loaded.rows[i]["product_name"])
    /\ Len(outfile[1].rows) = 1

\* C5: once clean_product_name has run, and up to the written file, no row
\* has product_name "Xxx": the rows kept are exactly the deduplicated rows
\* whose name does not become "Xxx", and a row loaded with no name has
\* product_name "Unknown".
C5_NoXxx ==
    Completed("clean_product_name") =>
        /\ \A k \in Rows : df.rows[k]["product_name"] # Str(sXxx)
        /\ {df.index[k] + 1 : k \in Rows} = FirstRows \ XxxRows
        /\ \A k \in Rows : IsNaN(RawCell(k, "product_name")) =>
               df.rows[k]["product_name"] = Str(sUnknown)
        /\ Completed("save_data") =>
               \A k \in 1..Len(outfile[1].rows) :
                   outfile[1].rows[k]["product_name"] # Str(sXxx)

\* a file with a name to trim and title-case into "Xxx" and a row with no
\* name has been cleaned and written
C5_Witness ==
    /\ pc = "done"
    /\ \E i \in XxxRows : Loaded.rows[i]["product_name"] # Str(sXxx)
    /\ \E k \in Rows : IsNaN(RawCell(k, "product_name"))
    /\ \E k \in Rows : ~IsNaN(RawCell(k, "product_name"))

Env == "environmental_score_score"

\* C9: when the loaded table has no environmental_score_score column the
\* run ends with an exception raised no later than clean_nutriscore:
\* clean_nutriscore, once reached, raises; clean_nova_group,
\* clean_nutritional_columns and save_data never run and no file is written.
\* When it has the column, the table lacks it after clean_nutriscore and no
\* later statement fails for want of a column.
C9_FailsLoudly ==
    /\ Env \notin infile.columns =>
          /\ pc \notin {"clean_nova_group", "clean_nutritional_columns",
                        "save_data", "show_cleaning_summary", "done"}
          /\ outfile = <<>>
          /\ pc = "raised" => Rank(err.at) <= Rank("clean_nutriscore")
          /\ (pc = "raised" /\ err.at = "clean_nutriscore") => err.exc = "KeyError"
    /\ (Env \in infile.columns /\ Completed("clean_nutriscore")) =>
          /\ Env \notin df.columns
          /\ err.exc # "KeyError"
          /\ Completed("save_data") => Env \notin outfile[1].columns

\* clean_nutriscore has raised on a table without the column
C9_Witness ==
    /\ Env \notin infile.columns
    /\ pc = "raised"
    /\ err = [exc |-> "KeyError", at |-> "clean_nutriscore"]
    /\ Len(df.rows) >= 1

\* C4: a second run on the file the first run wrote completes and writes a
\* file equal to its input.
C4_FixedPoint ==
    (run = 2 /\ pc \in {"raised", "done"}) =>
        (pc = "done" /\ outfile = <<infile>>)

\* the tokens of a normalised countries value, and the token the claim
\* expects for each: its entry in the table, or the token itself
Expected(token) ==
    {p[2] : p \in {q \in country_map : q[1] = token}}
        \cup (IF \E q \in country_map : q[1] = token THEN {} ELSE {token})

\* C6: in clean_countries, each comma-separated token of the value, taken
\* after prefix removal, comma spacing and title-casing, is replaced by its
\* entry in the country table when it is a key ("Fr" gives "France", "Us"
\* gives "United States") and is otherwise unchanged ("Xyzland"); the tokens
\* are rejoined in order with ", "; a missing value becomes "Unknown".
C6_CountryTokens ==
    Completed("clean_countries") =>
        \A k \in Rows :
            LET raw == RawCell(k, "countries")
                out == df.rows[k]["countries"]
            IN  IF IsNaN(raw) THEN out = Str(sUnknown)
                ELSE LET tokens == SplitComma(NormaliseCountries(raw.s))
                         outs   == SplitComma(out.s)
                     IN  /\ Len(outs) = Len(tokens)
                         /\ \A j \in 1..Len(tokens) :
                               \E e \in Expected(Strip(tokens[j])) :
                                   outs[j] = (IF j = 1 THEN <<>> ELSE <<" ">>) \o e
                         /\ Strip(tokens[1]) = <<"F","r">> =>
                               outs[1] = <<"F","r","a","n","c","e">>
                         /\ Strip(tokens[1]) = <<"U","s">> =>
                               outs[1] = <<"U","n","i","t","e","d"," ","S","t","a","t","e","s">>
                         /\ Strip(tokens[1]) = <<"X","y","z","l","a","n","d">> =>
                               outs[1] = <<"X","y","z","l","a","n","d">>

\* a value of three tokens, the last one no key of the table, and a missing
\* value have been cleaned
C6_Witness ==
    /\ pc = "clean_ingredients_labels_packaging"
    /\ \E k \in Rows : IsNaN(RawCell(k, "countries"))
    /\ \E k \in Rows :
          /\ IsStr(RawCell(k, "countries"))
          /\ Len(SplitComma(RawCell(k, "countries").s)) = 3
          /\ df.rows[k]["countries"] = Str(<<"F","r","a","n","c","e",","," ","G","e","r","m","a","n","y",","," ","X","y","z","l","a","n","d">>)

\* C10: after the pipeline, a brands cell loaded as "Xylimgxyling", a
\* categories cell loaded as "undefined" or "za" (with its categories_top)
\* and a packaging cell loaded as "40g", "packaging", "plaza vea" or "za"
\* each hold "Unknown".
C10_JunkBecomesUnknown ==
    pc = "done" =>
        \A k \in Rows :
            /\ RawCell(k, "brands") = Str(sXylimgxyling) =>
                  df.rows[k]["brands"] = Str(sUnknown)
            /\ RawCell(k, "categories") \in {Str(sundefined), Str(sza)} =>
                  /\ df.rows[k]["categories"] = Str(sUnknown)
                  /\ df.rows[k]["categories_top"] = Str(sUnknown)
            /\ RawCell(k, "packaging") \in
                   {Str(s40g), Str(spackaging), Str(splazavea), Str(sza)} =>
                  df.rows[k]["packaging"] = Str(sUnknown)

Grades == {<<"a">>, <<"b">>, <<"c">>, <<"d">>, <<"e">>}

GradeNumber(g) ==
    IF g = <<"a">> THEN 1 ELSE IF g = <<"b">> THEN 2 ELSE IF g = <<"c">> THEN 3
    ELSE IF g = <<"d">> THEN 4 ELSE 5

\* C7: in clean_nutriscore the grade is lower-cased, a missing grade or
\* "not-applicable" becoming "unknown"; nutriscore_numeric is 1..5 for the
\* grades a..e and 0 for a missing or "not-applicable" grade; a grade
\* outside the known set gives a missing nutriscore_numeric, and no grade
\* makes the statement raise.
C7_Nutriscore ==
    /\ Completed("clean_nutriscore") =>
          \A k \in Rows :
              LET raw   == RawCell(k, "nutriscore_grade")
                  grade == df.rows[k]["nutriscore_grade"]
                  num   == df.rows[k]["nutriscore_numeric"]
                  none  == IsNaN(raw) \/ raw = Str(snotapplicable)
              IN  /\ grade = IF none THEN Str(sunknown) ELSE Str(Lower(raw.s))
                  /\ none => num = Num(0)
                  /\ grade.s \in Grades => num = Num(GradeNumber(grade.s))
                  /\ grade.s \notin Grades \cup {sunknown} => num = NaN
    /\ (pc = "raised" /\ err.at = "clean_nutriscore") => Env \notin infile.columns

\* "not-applicable" and a grade outside the known set have been mapped
C7_Witness ==
    /\ pc = "clean_nova_group"
    /\ \E k \in Rows : RawCell(k, "nutriscore_grade") = Str(snotapplicable)
                       /\ df.rows[k]["nutriscore_numeric"] = Num(0)
    /\ \E k \in Rows : RawCell(k, "nutriscore_grade") = Str(<<"f">>)
                       /\ IsNaN(df.rows[k]["nutriscore_numeric"])

\* C8: in clean_nova_group the label is the one of the table for the groups
\* 1 to 4 and "Unknown" for a missing group, whose code is stored as
\* "unknown"; a group outside 1..4 gets a missing or "Unknown" label, and no
\* group makes the statement raise.
C8_NovaLabels ==
    /\ Completed("clean_nova_group") =>
          \A k \in Rows :
              LET raw   == RawCell(k, "nova_group")
                  code  == df.rows[k]["nova_group"]
                  label == df.rows[k]["nova_group_label"]
              IN  /\ raw = Num(1) => label = Str(sNova1)
                  /\ raw = Num(2) => label = Str(sNova2)
                  /\ raw = Num(3) => label = Str(sNova3)
                  /\ raw = Num(4) => label = Str(sNova4)
                  /\ IsNaN(raw) => code = Str(sunknown) /\ label = Str(sUnknown)
                  /\ ~IsNaN(raw) => code = raw
                  /\ (IsNum(raw) /\ raw.n \notin 1..4) =>
                         label \in {NaN, Str(sUnknown)}
    /\ ~(pc = "raised" /\ err.at = "clean_nova_group")

\* a missing group and a group outside 1..4 have been labelled
C8_Witness ==
    /\ pc = "clean_nutritional_columns"
    /\ \E k \in Rows : IsNaN(RawCell(k, "nova_group"))
                       /\ df.rows[k]["nova_group_label"] = Str(sUnknown)
    /\ \E k \in Rows : RawCell(k, "nova_group") = Num(5)
                       /\ IsNaN(df.rows[k]["nova_group_label"])
====
